---- MODULE Spec2Model ----
(***************************************************************************)
(* A model of the HTML translation service: the node selector and the      *)
(* batching loop of services/html_translator.py, the three translation     *)
(* providers of providers/, the provider factory with its cache, several  *)
(* requests served by one process, and translate_endpoint of api/routes.py *)
(* with its temporary file and its exception-to-status mapping.            *)
(*                                                                         *)
(* A text is a sequence of tokens; the token " " is whitespace, so that    *)
(* str.strip() and string concatenation are computed, not assumed.         *)
(* A parsed document is the sequence of its nodes in document order        *)
(* (pre-order), each node naming its parent by position (0 is the          *)
(* BeautifulSoup object itself).                                           *)
(***************************************************************************)
EXTENDS Integers, Sequences, FiniteSets, TLC

VARIABLES
    html,         \* translate_html's argument: the raw document
    batch_size,   \* translate_html's argument
    settings,     \* config.get_settings(): provider key and credentials
    pc,           \* where translate_html is
    soup,         \* the parsed tree, mutated in place
    nodes,        \* list(_iter_nodes(soup)): positions in soup
    i,            \* the loop variable of range(0, len(nodes), batch_size)
    translator,   \* the provider translate_html obtained, "none" before
    calls,        \* every provider call made: its texts and its outcome
    serialized,   \* whether str(soup) was evaluated
    result,       \* the returned document, NoDoc before / on failure
    error,        \* the exception translate_html raised, NoError if none
    oaTexts,      \* translate_batch_async's argument
    oaPc,         \* where translate_batch_async is
    oaTasks,      \* per text: the gathered task's result, Pending before
    oaBackend,    \* per text: what the chat API did with the request
    oaOrder,      \* the order in which the requests completed
    oaResult,     \* what translate_batch_async returned or raised
    requests,     \* per concurrent request: the locals of its translate_html
    cache,        \* the lru_cache of get_translation_provider
    constructed,  \* how many times a provider class returned an instance
    schedule,     \* the requests in the order of their provider calls
    upload,       \* translate_endpoint's html_file
    epPc,         \* where translate_endpoint is
    caught,       \* the exception translate_endpoint's try block raised
    temp_file_path, \* translate_endpoint's local of that name
    disk,         \* the temporary files that exist
    response      \* what translate_endpoint answered

vars == <<html, batch_size, settings, pc, soup, nodes, i, translator, calls,
          serialized, result, error,
          oaTexts, oaPc, oaTasks, oaBackend, oaOrder, oaResult,
          requests, cache, constructed, schedule,
          upload, epPc, caught, temp_file_path, disk, response>>

trVars == <<html, batch_size, settings, pc, soup, nodes, i, translator, calls,
            serialized, result, error>>

oaVars == <<oaTexts, oaPc, oaTasks, oaBackend, oaOrder, oaResult>>

rqVars == <<requests, cache, constructed, schedule>>

epVars == <<upload, epPc, caught, temp_file_path, disk, response>>

-----------------------------------------------------------------------------
(* Bounds of the model.                                                    *)

\* The longest document, in nodes (elements and strings together).
MaxNodes == 4

\* The largest batch_size tried; the smallest is -1.
MaxBatch == 3

\* The longest list of texts handed to the chat-API provider on its own.
MaxTexts == 3

-----------------------------------------------------------------------------
(* Texts.                                                                  *)

WS == " "

\* str.strip() is empty: every token is whitespace.
IsBlank(s) == \A k \in 1..Len(s) : s[k] = WS

RECURSIVE LStrip(_)
LStrip(s) == IF s # <<>> /\ Head(s) = WS THEN LStrip(Tail(s)) ELSE s

RECURSIVE RStrip(_)
RStrip(s) ==
    IF s # <<>> /\ s[Len(s)] = WS THEN RStrip(SubSeq(s, 1, Len(s) - 1)) ELSE s

\* str.strip()
Strip(s) == RStrip(LStrip(s))

\* The contents a string node of a generated document may have.
Contents == { <<"Hello">>, <<"World", WS>>, <<WS>> }

-----------------------------------------------------------------------------
(* Documents.                                                              *)

SKIP_TAGS ==
    {"script", "style", "code", "pre", "noscript", "textarea", "svg", "template"}

\* The element names generated documents use: one outside the skip-set, one in it.
Tags == {"b", "pre"}

\* A node: an element (kind "tag"), or a string: a plain NavigableString
\* ("text") or one of its subclasses, of which the selector names Comment and
\* Doctype; ProcessingInstruction ("pi") stands for those it does not name.
Element(name, parent) ==
    [kind |-> "tag", name |-> name, text |-> <<>>, parent |-> parent]

StringNode(kind, text, parent) ==
    [kind |-> kind, name |-> "", text |-> text, parent |-> parent]

\* The elements enclosing position p of tree t, innermost first, as a set.
RECURSIVE Ancestors(_, _)
Ancestors(t, p) ==
    IF p = 0 \/ t[p].parent = 0 THEN {}
    ELSE {t[p].parent} \union Ancestors(t, t[p].parent)

\* The elements still open after the last node of t: where the next node in
\* document order may be attached (0: the top level).
OpenParents(t) ==
    IF t = <<>> THEN {0}
    ELSE {0} \union Ancestors(t, Len(t))
             \union (IF t[Len(t)].kind = "tag" THEN {Len(t)} ELSE {})

\* The parser joins character data that follows character data: a text is
\* never the next sibling of a text.
AfterText(t, p) == t # <<>> /\ t[Len(t)].kind = "text" /\ t[Len(t)].parent = p

\* Every node a generated document may hold at position n.
NodeChoices(n) ==
    { Element(name, p) : name \in Tags, p \in 0..(n - 1) }
    \union
    { StringNode("text", c, p) : c \in Contents, p \in 0..(n - 1) }
    \union
    { StringNode("comment", <<"x">>, p) : p \in 0..(n - 1) }
    \union
    { StringNode("doctype", <<"html">>, 0) }
    \union
    { StringNode("pi", <<"xml">>, 0) }

\* Node x may come next in document order after the nodes of t: its parent
\* is still open, it is no text right after a text of that parent, and a
\* document type declaration or an XML prologue (<?xml ...?>, which
\* html.parser hands over as a ProcessingInstruction), when there is one,
\* opens the document.
CanFollow(t, x) ==
    /\ x.parent \in OpenParents(t)
    /\ x.kind = "text" => ~ AfterText(t, x.parent)
    /\ x.kind \in {"doctype", "pi"} => t = <<>>

\* Every tree of at most n nodes, in document order.
RECURSIVE TreesUpTo(_)
TreesUpTo(n) ==
    IF n = 0 THEN { <<>> }
    ELSE LET shorter == TreesUpTo(n - 1)
         IN  shorter \union
             { Append(y[1], y[2]) :
                 y \in { z \in shorter \X NodeChoices(n) :
                           Len(z[1]) = n - 1 /\ CanFollow(z[1], z[2]) } }

Trees == TreesUpTo(MaxNodes)

\* A raw document: its nodes and whether its text is already in the form the
\* serializer writes (attribute quoting, entity spelling, ...).
Forms == {"canonical", "other"}

Documents == { [form |-> f, nodes |-> t] : f \in Forms, t \in Trees }

\* BeautifulSoup(html, "html.parser"): the tree; the source form is not kept.
Parse(h) == h.nodes

\* str(soup): always the serializer's own form.
Serialize(t) == [form |-> "canonical", nodes |-> t]

NoDoc == [form |-> "none", nodes |-> <<>>]

-----------------------------------------------------------------------------
(* Exceptions: services/exceptions.py, fastapi's HTTPException, the built-in *)
(* ones and the two roots of google.api_core.exceptions.                     *)

\* The classes each exception class derives from (itself excluded).
Superclasses(type) ==
    CASE type = "ServiceException"       -> {"Exception"}
      [] type = "FileProcessingError"    -> {"ServiceException", "Exception"}
      [] type = "FileDecodingError"      ->
            {"FileProcessingError", "ServiceException", "Exception"}
      [] type = "EmptyFileError"         ->
            {"FileProcessingError", "ServiceException", "Exception"}
      [] type = "TranslationError"       -> {"ServiceException", "Exception"}
      [] type = "TranslationAPIError"    ->
            {"TranslationError", "ServiceException", "Exception"}
      [] type = "InsufficientQuotaError" ->
            {"TranslationAPIError", "TranslationError", "ServiceException",
             "Exception"}
      [] type = "GoogleAPICallError"     -> {"GoogleAPIError", "Exception"}
      [] type = "RetryError"             -> {"GoogleAPIError", "Exception"}
      [] type = "RateLimitError"         -> {"APIError", "Exception"}
      [] type = "Exception"              -> {}
      [] OTHER                           -> {"Exception"}

\* isinstance(e, cls)
IsInstance(e, cls) == e.type = cls \/ cls \in Superclasses(e.type)

\* An exception: its class, the status code it carries (HTTPException only,
\* else 0), where it was raised, and the class of the exception it wraps.
Exc(type, status, detail, cause) ==
    [type |-> type, status |-> status, detail |-> detail, cause |-> cause]

NoError == Exc("none", 0, "", "none")

\* What a call gives back: a value or an exception.
Return(v) == [kind |-> "return", val |-> v, err |-> NoError]

Raise(e) == [kind |-> "raise", val |-> <<>>, err |-> e]

\* A call that has not come back yet.
Pending == [kind |-> "pending", val |-> <<>>, err |-> NoError]

\* The status code translate_endpoint's except clauses answer with, in the
\* order the clauses are written.
EndpointStatus(e) ==
    IF IsInstance(e, "FileDecodingError") THEN 400
    ELSE IF IsInstance(e, "EmptyFileError") THEN 400
    ELSE IF IsInstance(e, "FileProcessingError") THEN 422
    ELSE IF IsInstance(e, "InsufficientQuotaError") THEN 429
    ELSE IF IsInstance(e, "TranslationAPIError") THEN 502
    ELSE IF IsInstance(e, "TranslationError") THEN 500
    ELSE IF IsInstance(e, "HTTPException") THEN e.status
    ELSE 500

-----------------------------------------------------------------------------
(* The providers.                                                          *)

\* DummyTranslationProvider.prefix
DummyPrefix == <<"[DUMMY_TRANSLATED]: ">>

\* DummyTranslationProvider.translate_batch / translate_batch_async
DummyTranslate(texts) == [k \in 1..Len(texts) |-> DummyPrefix \o texts[k]]

\* The translation the Google backend gives for one text.
GoogleText(s) == <<"[g]">> \o s

\* What the backend may do with the one translate_text request.
GoogleBackendOutcomes == {"ok", "short", "long", "GoogleAPICallError", "RetryError"}

\* resp.translations for a request that succeeded: one entry per text, or (a
\* backend not keeping its contract) one fewer or one more.
GoogleTranslations(texts, outcome) ==
    LET full == [k \in 1..Len(texts) |-> GoogleText(texts[k])]
    IN  CASE outcome = "ok"    -> full
          [] outcome = "short" -> SubSeq(full, 1, Len(full) - 1)
          [] outcome = "long"  -> Append(full, <<"[g]">>)

\* GoogleTranslationProvider.translate_batch
GoogleTranslateBatch(texts, outcome) ==
    IF outcome \in {"ok", "short", "long"}
    THEN Return(GoogleTranslations(texts, outcome))
    ELSE LET e == Exc(outcome, 0, "backend", "none")
         IN  IF IsInstance(e, "GoogleAPICallError")
             THEN Raise(Exc("TranslationAPIError", 0, "Google Cloud", e.type))
             ELSE Raise(e)

\* What the chat API may do with one request: answer, or fail for quota /
\* rate limiting, or fail otherwise.
ItemOutcomes == {"ok", "quota", "other"}

\* The exception the chat client raises for a failed request.
ChatError(outcome) ==
    IF outcome = "quota" THEN Exc("RateLimitError", 0, "backend", "none")
    ELSE Exc("APIError", 0, "backend", "none")

\* response.choices[0].message.content for a request that succeeded.
ChatReply(text) == <<"[o]">> \o text

\* OpenAITranslationProvider._translate_single_text
TranslateSingleText(text, outcome) ==
    IF outcome = "ok" THEN Return(Strip(ChatReply(text)))
    ELSE Raise(Exc("HTTPException", 502, "single", ChatError(outcome).type))

\* The position of the first exception among gathered results, 0 if none.
FirstException(translations) ==
    IF \E k \in 1..Len(translations) : translations[k].kind = "raise"
    THEN CHOOSE k \in 1..Len(translations) :
            /\ translations[k].kind = "raise"
            /\ \A j \in 1..(k - 1) : translations[j].kind # "raise"
    ELSE 0

\* A variant that keeps the untranslated text where a request failed.
GatherLoopPlaceholder(texts, translations) ==
    Return([j \in 1..Len(translations) |->
              IF translations[j].kind = "raise" THEN texts[j] ELSE translations[j].val])

\* The body of translate_batch_async after the gather: the loop over the
\* gathered results and the except clause around it.
GatherLoop(texts, translations) ==
    LET k == FirstException(translations)
    IN  IF k = 0
        THEN Return([j \in 1..Len(translations) |-> translations[j].val])
        ELSE \* raise HTTPException(502, "Error translating item") from res,
             \* caught by "except Exception" and raised again as a new one
             Raise(Exc("HTTPException", 502, "batch", "HTTPException"))

\* OpenAITranslationProvider.translate_batch_async, the requests' outcomes given.
OpenAITranslateBatchAsync(texts, outcomes) ==
    GatherLoop(texts,
               [k \in 1..Len(texts) |-> TranslateSingleText(texts[k], outcomes[k])])

-----------------------------------------------------------------------------
(* Configuration and the provider factory.                                 *)

AVAILABLE_PROVIDERS == {"google", "openai", "dummy"}

\* The settings tried: each provider with what it needs, the two network
\* providers without their credential, and a key the factory does not know.
Settings ==
    { [translation_provider |-> "dummy",  openai_api_key |-> FALSE, gcp_project_id |-> FALSE],
      [translation_provider |-> "openai", openai_api_key |-> TRUE,  gcp_project_id |-> FALSE],
      [translation_provider |-> "openai", openai_api_key |-> FALSE, gcp_project_id |-> FALSE],
      [translation_provider |-> "google", openai_api_key |-> FALSE, gcp_project_id |-> TRUE],
      [translation_provider |-> "google", openai_api_key |-> FALSE, gcp_project_id |-> FALSE],
      [translation_provider |-> "deepl",  openai_api_key |-> FALSE, gcp_project_id |-> FALSE] }

\* The settings before get_settings() was first called.
NoSettings ==
    [translation_provider |-> "unread", openai_api_key |-> FALSE, gcp_project_id |-> FALSE]

\* ProviderClass(): the constructors of the three providers.
Construct(key, st) ==
    CASE key = "openai" ->
            IF st.openai_api_key THEN Return(<<"openai">>)
            ELSE Raise(Exc("RuntimeError", 0, "OPENAI_API_KEY", "none"))
      [] key = "google" ->
            IF st.gcp_project_id THEN Return(<<"google">>)
            ELSE Raise(Exc("RuntimeError", 0, "GCP_PROJECT_ID", "none"))
      [] key = "dummy"  -> Return(<<"dummy">>)

\* get_translation_provider(), called with nothing cached.
GetTranslationProvider(st) ==
    IF st.translation_provider \in AVAILABLE_PROVIDERS
    THEN Construct(st.translation_provider, st)
    ELSE Raise(Exc("ValueError", 0, "Unsupported translation provider", "none"))

\* hasattr(translator, 'translate_batch_async')
HasAsync(provider) == provider \in {"dummy", "openai"}

\* Every outcome one batch call on the provider can have.
ProviderOutcomes(provider, texts) ==
    CASE provider = "dummy"  -> { Return(DummyTranslate(texts)) }
      [] provider = "openai" ->
            { OpenAITranslateBatchAsync(texts, o) :
                o \in [1..Len(texts) -> ItemOutcomes] }
      [] provider = "google" ->
            { GoogleTranslateBatch(texts, o) : o \in GoogleBackendOutcomes }

-----------------------------------------------------------------------------
(* The node selector and the batching loop of translate_html.              *)

\* node.parent.name
ParentName(t, p) == IF t[p].parent = 0 THEN "[document]" ELSE t[t[p].parent].name

\* A variant that looks for a skip-set element among all the ancestors.
IsEligibleDeep(t, p) ==
    /\ t[p].kind # "tag"
    /\ ~ (\/ t[p].kind \in {"comment", "doctype"}
          \/ IsBlank(t[p].text)
          \/ \E a \in Ancestors(t, p) : t[a].name \in SKIP_TAGS)

\* The test of _iter_nodes on one string node: it is kept unless it is a
\* Comment or Doctype, or blank, or its parent's name is in SKIP_TAGS.
IsEligible(t, p) ==
    /\ t[p].kind # "tag"
    /\ ~ (\/ t[p].kind \in {"comment", "doctype"}
          \/ IsBlank(t[p].text)
          \/ ParentName(t, p) \in SKIP_TAGS)

\* list(_iter_nodes(soup)): the positions kept, in document order.
RECURSIVE IterFrom(_, _)
IterFrom(t, p) ==
    IF p > Len(t) THEN <<>>
    ELSE (IF IsEligible(t, p) THEN <<p>> ELSE <<>>) \o IterFrom(t, p + 1)

IterNodes(t) == IterFrom(t, 1)

\* Whether range(0, stop, step) still yields start (step is not 0).
InRange(start, stop, step) == IF step > 0 THEN start < stop ELSE start > stop

Min(a, b) == IF a < b THEN a ELSE b

\* A variant whose slice ends one position early.
ChunkOffByOne(ns, start, size) == SubSeq(ns, start + 1, Min(start + size - 1, Len(ns)))

\* nodes[start:start + size] for 0 <= start and size > 0
Chunk(ns, start, size) == SubSeq(ns, start + 1, Min(start + size, Len(ns)))

\* [n.string for n in chunk]
NodeStrings(t, chunk) == [k \in 1..Len(chunk) |-> t[chunk[k]].text]

\* node.replace_with(NavigableString(translation)): a plain string with the
\* translation takes the node's place.
ReplaceWith(t, p, translation) ==
    [t EXCEPT ![p] = StringNode("text", translation, t[p].parent)]

\* A variant that leaves the last replacement of a batch undone.
RECURSIVE ApplyFromButLast(_, _, _, _)
ApplyFromButLast(t, chunk, translations, k) ==
    IF k >= Min(Len(chunk), Len(translations)) THEN t
    ELSE ApplyFromButLast(ReplaceWith(t, chunk[k], translations[k]),
                          chunk, translations, k + 1)

\* for node, translation in zip(chunk, translations): node.replace_with(...)
RECURSIVE ApplyFrom(_, _, _, _)
ApplyFrom(t, chunk, translations, k) ==
    IF k > Min(Len(chunk), Len(translations)) THEN t
    ELSE ApplyFrom(ReplaceWith(t, chunk[k], translations[k]), chunk, translations, k + 1)

Reverse(q) == [k \in 1..Len(q) |-> q[Len(q) + 1 - k]]

\* A variant that pairs the chunk with the translations back to front.
ApplyTranslationsReversed(t, chunk, translations) ==
    ApplyFrom(t, chunk, Reverse(translations), 1)

ApplyTranslations(t, chunk, translations) == ApplyFrom(t, chunk, translations, 1)

\* A variant that never takes the early return.
ShortCircuitNever(ns) == FALSE

\* "if not nodes: return html"
ShortCircuit(ns) == ns = <<>>

\* A variant that carries on with the loop after a provider's exception.
PropagatesNever(r) == FALSE

\* The awaited call sits in no try block: an exception it raises leaves
\* translate_html as it is.
Propagates(r) == r.kind = "raise"

\* Lines 104-112: parse, select, return the input when nothing is eligible,
\* else obtain the provider; the factory is what first reads the settings
\* (get_settings() is cached and loads the environment on its first call),
\* and environments are the settings the environment may hold.
StartWith(environments) ==
    /\ pc = "start"
    /\ LET tree == Parse(html)
           ns   == IterNodes(tree)
       IN  /\ soup' = tree
           /\ nodes' = ns
           /\ IF ShortCircuit(ns)
              THEN /\ pc' = "done"
                   /\ result' = html
                   /\ UNCHANGED <<settings, translator, error>>
              ELSE \E st \in environments :
                      LET got == GetTranslationProvider(st)
                      IN  /\ settings' = st
                          /\ IF got.kind = "raise"
                             THEN /\ pc' = "failed"
                                  /\ error' = got.err
                                  /\ UNCHANGED <<translator, result>>
                             ELSE /\ pc' = "loop"
                                  /\ translator' = got.val[1]
                                  /\ UNCHANGED <<result, error>>
    /\ i' = 0
    /\ UNCHANGED <<html, batch_size, calls, serialized>>
    /\ UNCHANGED <<oaVars, rqVars, epVars>>

\* translate_html starts where the dummy provider is configured.
Start == StartWith({ st \in Settings : st.translation_provider = "dummy" })

\* translate_html starts under any of the settings.
StartAny == StartWith(Settings)

\* Line 115 with batch_size = 0: range() raises ValueError.
RangeError ==
    /\ pc = "loop"
    /\ batch_size = 0
    /\ pc' = "failed"
    /\ error' = Exc("ValueError", 0, "range() arg 3 must not be zero", "none")
    /\ UNCHANGED <<html, batch_size, settings, soup, nodes, i, translator, calls,
                   serialized, result>>
    /\ UNCHANGED <<oaVars, rqVars, epVars>>

\* Lines 115-130: the next chunk and its strings; the provider is called.
CallProvider ==
    /\ pc = "loop"
    /\ batch_size # 0
    /\ InRange(i, Len(nodes), batch_size)
    /\ LET chunk == Chunk(nodes, i, batch_size)
       IN  calls' = Append(calls, [texts |-> NodeStrings(soup, chunk),
                                   async |-> HasAsync(translator),
                                   resp  |-> Pending])
    /\ pc' = "awaiting"
    /\ UNCHANGED <<html, batch_size, settings, soup, nodes, i, translator,
                   serialized, result, error>>
    /\ UNCHANGED <<oaVars, rqVars, epVars>>

\* Lines 120-134: the provider call comes back; an exception leaves
\* translate_html, a list is zipped onto the chunk and the loop goes on.
ProviderReturns ==
    /\ pc = "awaiting"
    /\ \E r \in ProviderOutcomes(translator, calls[Len(calls)].texts) :
          /\ calls' = [calls EXCEPT ![Len(calls)].resp = r]
          /\ IF Propagates(r)
             THEN /\ pc' = "failed"
                  /\ error' = r.err
                  /\ UNCHANGED <<soup, i>>
             ELSE /\ pc' = "loop"
                  /\ soup' = ApplyTranslations(soup, Chunk(nodes, i, batch_size), r.val)
                  /\ i' = i + batch_size
                  /\ UNCHANGED error
    /\ UNCHANGED <<html, batch_size, settings, nodes, translator, serialized, result>>
    /\ UNCHANGED <<oaVars, rqVars, epVars>>

\* Lines 136-137: the range is exhausted; the tree is serialized and returned.
Finish ==
    /\ pc = "loop"
    /\ batch_size # 0
    /\ ~ InRange(i, Len(nodes), batch_size)
    /\ pc' = "done"
    /\ serialized' = TRUE
    /\ result' = Serialize(soup)
    /\ UNCHANGED <<html, batch_size, settings, soup, nodes, i, translator, calls, error>>
    /\ UNCHANGED <<oaVars, rqVars, epVars>>

\* The chat-API provider is not running on its own.
OAIdle ==
    /\ oaTexts = <<>>
    /\ oaPc = "idle"
    /\ oaTasks = <<>>
    /\ oaBackend = <<>>
    /\ oaOrder = <<>>
    /\ oaResult = Pending

\* No concurrent requests are being served, and nothing is cached yet.
NoInstance == [key |-> "none", id |-> 0]

RqIdle ==
    /\ requests = <<>>
    /\ cache = NoInstance
    /\ constructed = 0
    /\ schedule = <<>>

\* translate_endpoint is not running.
NoUpload == [kind |-> "none", doc |-> NoDoc]

NoResponse == [status |-> 0, path |-> "none", background |-> "none"]

EpIdle ==
    /\ upload = NoUpload
    /\ epPc = "idle"
    /\ caught = NoError
    /\ temp_file_path = "None"
    /\ disk = {}
    /\ response = NoResponse

\* translate_html has just been called with a document of docs.
InitWith(docs) ==
    /\ html \in docs
    /\ batch_size \in (0 - 1)..MaxBatch
    /\ settings = NoSettings
    /\ pc = "start"
    /\ soup = <<>>
    /\ nodes = <<>>
    /\ i = 0
    /\ translator = "none"
    /\ calls = <<>>
    /\ serialized = FALSE
    /\ result = NoDoc
    /\ error = NoError
    /\ OAIdle
    /\ RqIdle
    /\ EpIdle

\* Every document, every batch size, the dummy provider.
Init == InitWith(Documents)

Next ==
    \/ Start
    \/ RangeError
    \/ CallProvider
    \/ ProviderReturns
    \/ Finish

Spec == Init /\ [][Next]_vars

\* The documents whose strings are all text to translate, in <b> or not.
PlainDocuments ==
    { d \in Documents :
        \A p \in 1..Len(d.nodes) :
           \/ d.nodes[p].kind = "tag" /\ d.nodes[p].name = "b"
           \/ d.nodes[p].kind = "text" /\ ~ IsBlank(d.nodes[p].text) }

\* Every provider and every outcome of its calls, on the plain documents.
InitAny == InitWith(PlainDocuments)

NextAny ==
    \/ StartAny
    \/ RangeError
    \/ CallProvider
    \/ ProviderReturns
    \/ Finish

SpecAny == InitAny /\ [][NextAny]_vars

-----------------------------------------------------------------------------
(* OpenAITranslationProvider.translate_batch_async on its own, one step per *)
(* request that completes: asyncio.gather runs the requests concurrently,   *)
(* so they complete in any order.                                           *)

\* Every list of at most n texts.
RECURSIVE TextLists(_)
TextLists(n) ==
    IF n = 0 THEN { <<>> }
    ELSE TextLists(n - 1) \union
         { Append(l, c) : l \in { x \in TextLists(n - 1) : Len(x) = n - 1 }, c \in Contents }

\* translate_html is not running.
TrIdle ==
    /\ html = NoDoc
    /\ batch_size = 0
    /\ settings = [translation_provider |-> "openai", openai_api_key |-> TRUE,
                   gcp_project_id |-> FALSE]
    /\ pc = "idle"
    /\ soup = <<>>
    /\ nodes = <<>>
    /\ i = 0
    /\ translator = "openai"
    /\ calls = <<>>
    /\ serialized = FALSE
    /\ result = NoDoc
    /\ error = NoError

\* Line 133 and the entry into gather: one request per text, none done yet.
InitOA ==
    /\ TrIdle
    /\ oaTexts \in TextLists(MaxTexts)
    /\ oaPc = "gathering"
    /\ oaTasks = [k \in 1..Len(oaTexts) |-> Pending]
    /\ oaBackend = [k \in 1..Len(oaTexts) |-> "none"]
    /\ oaOrder = <<>>
    /\ oaResult = Pending
    /\ RqIdle
    /\ EpIdle

\* A variant that lists the results in the order the requests complete.
GatheredAsCompleted(tasks, k, r) ==
    LET first == CHOOSE j \in 1..Len(tasks) :
                    /\ tasks[j].kind = "pending"
                    /\ \A m \in 1..(j - 1) : tasks[m].kind # "pending"
    IN  [tasks EXCEPT ![first] = r]

\* asyncio.gather(*tasks): the result of the k-th awaitable is the k-th of
\* the list, whenever it completes.
Gathered(tasks, k, r) == [tasks EXCEPT ![k] = r]

\* One request completes: _translate_single_text returns or raises, and
\* gather(return_exceptions=True) keeps either at the request's position.
OARequestDone ==
    /\ oaPc = "gathering"
    /\ \E k \in 1..Len(oaTexts), o \in ItemOutcomes :
          /\ oaBackend[k] = "none"
          /\ oaTasks' = Gathered(oaTasks, k, TranslateSingleText(oaTexts[k], o))
          /\ oaBackend' = [oaBackend EXCEPT ![k] = o]
          /\ oaOrder' = Append(oaOrder, k)
    /\ UNCHANGED <<oaTexts, oaPc, oaResult>>
    /\ UNCHANGED <<trVars, rqVars, epVars>>

\* Every request has completed: gather returns and lines 137-150 run.
OAGatherDone ==
    /\ oaPc = "gathering"
    /\ \A k \in 1..Len(oaTexts) : oaTasks[k].kind # "pending"
    /\ oaResult' = GatherLoop(oaTexts, oaTasks)
    /\ oaPc' = "done"
    /\ UNCHANGED <<oaTexts, oaTasks, oaBackend, oaOrder>>
    /\ UNCHANGED <<trVars, rqVars, epVars>>

NextOA ==
    \/ OARequestDone
    \/ OAGatherDone

SpecOA == InitOA /\ [][NextOA]_vars

-----------------------------------------------------------------------------
(* Several translate requests in one process.  translate_html is a         *)
(* coroutine run by the one event loop: between two awaits it runs alone,  *)
(* and while it awaits its provider call another request's translate_html  *)
(* may run.  Its tree, node list and loop variable are locals of the call; *)
(* the settings and the provider are cached by the process.                *)

Requests == {"A", "B"}

\* The documents the concurrent requests bring: the empty one, and those of
\* two different texts in or around one <b>.
SampleDocuments ==
    { d \in PlainDocuments :
        /\ d.form = "other"
        /\ \/ d.nodes = <<>>
           \/ /\ Len(d.nodes) = 3
              /\ Len(IterNodes(d.nodes)) = 2
              /\ d.nodes[IterNodes(d.nodes)[1]].text # d.nodes[IterNodes(d.nodes)[2]].text }

\* The locals of a translate_html that has just been called.
NewRequest(d, b) ==
    [html |-> d, batch_size |-> b, pc |-> "start", soup |-> <<>>, nodes |-> <<>>,
     i |-> 0, translator |-> NoInstance, calls |-> <<>>, result |-> NoDoc,
     error |-> NoError]

\* A variant of the factory without its cache: every call constructs.
UncachedProvider(c, st, made) ==
    LET got == GetTranslationProvider(st)
    IN  IF got.kind = "raise"
        THEN [out |-> got, cache |-> c, constructed |-> made]
        ELSE LET inst == [key |-> got.val[1], id |-> made + 1]
             IN  [out |-> Return(<<inst>>), cache |-> inst, constructed |-> made + 1]

\* get_translation_provider() under lru_cache(maxsize=1): a cached instance
\* is returned as it is; else the body runs, and what it returns is cached
\* (an exception is not).  c is the cache, made the instances made so far.
CachedProvider(c, st, made) ==
    IF c # NoInstance
    THEN [out |-> Return(<<c>>), cache |-> c, constructed |-> made]
    ELSE LET got == GetTranslationProvider(st)
         IN  IF got.kind = "raise"
             THEN [out |-> got, cache |-> c, constructed |-> made]
             ELSE LET inst == [key |-> got.val[1], id |-> made + 1]
                  IN  [out |-> Return(<<inst>>), cache |-> inst,
                       constructed |-> made + 1]

\* A variant in which the provider keeps the texts of a call on the shared
\* instance: a call answers for the texts given last, by whichever request.
LastGivenTexts(rs, r) ==
    LET last == schedule[Len(schedule)]
    IN  rs[last].calls[Len(rs[last].calls)].texts

\* The texts the call request r awaits was given: an argument of that call.
AwaitedTexts(rs, r) == rs[r].calls[Len(rs[r].calls)].texts

\* The variables of the single translate_html, but the settings.
trLocals == <<html, batch_size, pc, soup, nodes, i, translator, calls,
              serialized, result, error>>

\* Lines 104-112 for request r.
RqStart(r) ==
    /\ requests[r].pc = "start"
    /\ LET q    == requests[r]
           tree == Parse(q.html)
           ns   == IterNodes(tree)
       IN  IF ShortCircuit(ns)
           THEN /\ requests' = [requests EXCEPT ![r] =
                      [q EXCEPT !.soup = tree, !.nodes = ns, !.pc = "done",
                                !.result = q.html]]
                /\ UNCHANGED <<settings, cache, constructed>>
           ELSE \E st \in (IF settings = NoSettings THEN Settings ELSE {settings}) :
                   LET got == CachedProvider(cache, st, constructed)
                   IN  /\ settings' = st
                       /\ cache' = got.cache
                       /\ constructed' = got.constructed
                       /\ requests' = [requests EXCEPT ![r] =
                             IF got.out.kind = "raise"
                             THEN [q EXCEPT !.soup = tree, !.nodes = ns,
                                            !.pc = "failed", !.error = got.out.err]
                             ELSE [q EXCEPT !.soup = tree, !.nodes = ns,
                                            !.pc = "loop",
                                            !.translator = got.out.val[1]]]
    /\ UNCHANGED schedule
    /\ UNCHANGED trLocals
    /\ UNCHANGED <<oaVars, epVars>>

\* Lines 115-130 for request r: the next chunk is handed to the provider and
\* the coroutine is suspended.
RqCallProvider(r) ==
    /\ requests[r].pc = "loop"
    /\ LET q     == requests[r]
           chunk == Chunk(q.nodes, q.i, q.batch_size)
       IN  /\ InRange(q.i, Len(q.nodes), q.batch_size)
           /\ requests' = [requests EXCEPT ![r] =
                 [q EXCEPT !.pc = "awaiting",
                           !.calls = Append(q.calls,
                                            [texts |-> NodeStrings(q.soup, chunk),
                                             async |-> HasAsync(q.translator.key),
                                             resp  |-> Pending])]]
    /\ schedule' = Append(schedule, r)
    /\ UNCHANGED <<settings, cache, constructed>>
    /\ UNCHANGED trLocals
    /\ UNCHANGED <<oaVars, epVars>>

\* Lines 120-134 for request r: its provider call comes back.
RqProviderReturns(r) ==
    /\ requests[r].pc = "awaiting"
    /\ LET q == requests[r]
       IN  \E resp \in ProviderOutcomes(q.translator.key, AwaitedTexts(requests, r)) :
              requests' = [requests EXCEPT ![r] =
                 IF Propagates(resp)
                 THEN [q EXCEPT !.pc = "failed", !.error = resp.err,
                                !.calls[Len(q.calls)].resp = resp]
                 ELSE [q EXCEPT !.pc = "loop",
                                !.soup = ApplyTranslations(
                                            q.soup,
                                            Chunk(q.nodes, q.i, q.batch_size),
                                            resp.val),
                                !.i = q.i + q.batch_size,
                                !.calls[Len(q.calls)].resp = resp]]
    /\ UNCHANGED <<settings, cache, constructed, schedule>>
    /\ UNCHANGED trLocals
    /\ UNCHANGED <<oaVars, epVars>>

\* Lines 136-137 for request r.
RqFinish(r) ==
    /\ requests[r].pc = "loop"
    /\ LET q == requests[r]
       IN  /\ ~ InRange(q.i, Len(q.nodes), q.batch_size)
           /\ requests' = [requests EXCEPT ![r] =
                 [q EXCEPT !.pc = "done", !.result = Serialize(q.soup)]]
    /\ UNCHANGED <<settings, cache, constructed, schedule>>
    /\ UNCHANGED trLocals
    /\ UNCHANGED <<oaVars, epVars>>

\* A fresh process has accepted the requests; none has run yet.
InitRq ==
    /\ requests \in [Requests -> { NewRequest(d, b) : d \in SampleDocuments,
                                                      b \in 1..(MaxBatch - 1) }]
    /\ cache = NoInstance
    /\ constructed = 0
    /\ schedule = <<>>
    /\ settings = NoSettings
    /\ html = NoDoc
    /\ batch_size = 0
    /\ pc = "idle"
    /\ soup = <<>>
    /\ nodes = <<>>
    /\ i = 0
    /\ translator = "none"
    /\ calls = <<>>
    /\ serialized = FALSE
    /\ result = NoDoc
    /\ error = NoError
    /\ OAIdle
    /\ EpIdle

NextRq ==
    \E r \in Requests :
       \/ RqStart(r)
       \/ RqCallProvider(r)
       \/ RqProviderReturns(r)
       \/ RqFinish(r)

SpecRq == InitRq /\ [][NextRq]_vars

-----------------------------------------------------------------------------
(* translate_endpoint: the upload is read, translate_html runs (the        *)
(* actions above), the result is written to a temporary file that the      *)
(* response names, and a background task removes the file once the         *)
(* response has been sent.                                                 *)

\* The uploads tried: a document in UTF-8 or in another encoding, a file
\* of whitespace only, and a file whose read() fails.
Uploads ==
    { [kind |-> k, doc |-> d] : k \in {"utf8", "latin1"}, d \in SampleDocuments }
    \union { [kind |-> "blank", doc |-> NoDoc], [kind |-> "unreadable", doc |-> NoDoc] }

\* get_html_from_upload_file: bytes that are not UTF-8 are decoded as
\* latin-1, which accepts any bytes; a blank file and a failed read raise.
GetHtmlFromUploadFile(u) ==
    CASE u.kind = "unreadable" ->
            Raise(Exc("FileProcessingError", 0, "read", "Exception"))
      [] u.kind = "blank" -> Raise(Exc("EmptyFileError", 0, "empty", "none"))
      [] OTHER -> Return(<<u.doc>>)

\* The name tempfile gives the file of this request.
TempName == "tmp.html"

\* cleanup_temp_file(file_path): os.remove, whose OSError is logged and
\* dropped; removed tells whether os.remove succeeded.
CleanupTempFile(files, file_path, removed) ==
    IF removed THEN files \ {file_path} ELSE files

\* Line 41: the upload is read and decoded; line 43 calls translate_html.
EPRead ==
    /\ epPc = "reading"
    /\ LET got == GetHtmlFromUploadFile(upload)
       IN  IF got.kind = "raise"
           THEN /\ caught' = got.err
                /\ epPc' = "handling"
                /\ UNCHANGED <<html, pc>>
           ELSE /\ html' = got.val[1]
                /\ pc' = "start"
                /\ epPc' = "translating"
                /\ UNCHANGED caught
    /\ UNCHANGED <<upload, temp_file_path, disk, response>>
    /\ UNCHANGED <<batch_size, settings, soup, nodes, i, translator, calls,
                   serialized, result, error>>
    /\ UNCHANGED <<oaVars, rqVars>>

\* Lines 43-48: translate_html has returned or raised.
EPTranslated ==
    /\ epPc = "translating"
    /\ pc \in {"done", "failed"}
    /\ IF pc = "failed"
       THEN /\ caught' = error
            /\ epPc' = "handling"
       ELSE /\ epPc' = "creating"
            /\ UNCHANGED caught
    /\ UNCHANGED <<upload, temp_file_path, disk, response>>
    /\ UNCHANGED <<trVars, oaVars, rqVars>>

\* Line 50: NamedTemporaryFile(delete=False, ...) creates the file, or fails
\* to (no file then).
EPCreateTemp ==
    /\ epPc = "creating"
    /\ \E ok \in BOOLEAN :
          IF ok
          THEN /\ disk' = disk \union {TempName}
               /\ epPc' = "writing"
               /\ UNCHANGED caught
          ELSE /\ caught' = Exc("OSError", 0, "NamedTemporaryFile", "none")
               /\ epPc' = "handling"
               /\ UNCHANGED disk
    /\ UNCHANGED <<upload, temp_file_path, response>>
    /\ UNCHANGED <<trVars, oaVars, rqVars>>

\* Lines 51-52: the document is written, and only then is temp_file_path
\* assigned; a write that fails leaves the with block, which closes the
\* file and, with delete=False, keeps it.
EPWrite ==
    /\ epPc = "writing"
    /\ \E ok \in BOOLEAN :
          IF ok
          THEN /\ temp_file_path' = TempName
               /\ epPc' = "responding"
               /\ UNCHANGED caught
          ELSE /\ caught' = Exc("OSError", 0, "write", "none")
               /\ epPc' = "handling"
               /\ UNCHANGED temp_file_path
    /\ UNCHANGED <<upload, disk, response>>
    /\ UNCHANGED <<trVars, oaVars, rqVars>>

\* Lines 54-64: the response is built with the cleanup as its background
\* task and returned; or building it raises.
EPRespond ==
    /\ epPc = "responding"
    /\ \E ok \in BOOLEAN :
          IF ok
          THEN /\ response' = [status |-> 200, path |-> temp_file_path,
                               background |-> "cleanup_temp_file"]
               /\ epPc' = "sent"
               /\ UNCHANGED caught
          ELSE /\ caught' = Exc("Exception", 0, "FileResponse", "none")
               /\ epPc' = "handling"
               /\ UNCHANGED response
    /\ UNCHANGED <<upload, temp_file_path, disk>>
    /\ UNCHANGED <<trVars, oaVars, rqVars>>

\* The response has been sent: its background task runs cleanup_temp_file.
EPBackground ==
    /\ epPc = "sent"
    /\ \E removed \in BOOLEAN :
          disk' = CleanupTempFile(disk, response.path, removed)
    /\ epPc' = "finished"
    /\ UNCHANGED <<upload, caught, temp_file_path, response>>
    /\ UNCHANGED <<trVars, oaVars, rqVars>>

\* Lines 66-105: whichever except clause takes the exception cleans up if
\* temp_file_path is set, and answers with the clause's status.
EPHandle ==
    /\ epPc = "handling"
    /\ IF temp_file_path # "None"
       THEN \E removed \in BOOLEAN :
               disk' = CleanupTempFile(disk, temp_file_path, removed)
       ELSE UNCHANGED disk
    /\ response' = [status |-> EndpointStatus(caught), path |-> "none",
                    background |-> "none"]
    /\ epPc' = "finished"
    /\ UNCHANGED <<upload, caught, temp_file_path>>
    /\ UNCHANGED <<trVars, oaVars, rqVars>>

\* translate_endpoint has just been called.
InitEP ==
    /\ upload \in Uploads
    /\ epPc = "reading"
    /\ caught = NoError
    /\ temp_file_path = "None"
    /\ disk = {}
    /\ response = NoResponse
    /\ html = NoDoc
    /\ batch_size \in (0 - 1)..MaxBatch
    /\ settings = NoSettings
    /\ pc = "idle"
    /\ soup = <<>>
    /\ nodes = <<>>
    /\ i = 0
    /\ translator = "none"
    /\ calls = <<>>
    /\ serialized = FALSE
    /\ result = NoDoc
    /\ error = NoError
    /\ OAIdle
    /\ RqIdle

NextEP ==
    \/ EPRead
    \/ StartAny
    \/ RangeError
    \/ CallProvider
    \/ ProviderReturns
    \/ Finish
    \/ EPTranslated
    \/ EPCreateTemp
    \/ EPWrite
    \/ EPRespond
    \/ EPBackground
    \/ EPHandle

SpecEP == InitEP /\ [][NextEP]_vars

\* The event loop runs whatever is ready: the handler and the background
\* task are not left waiting for ever.
FairSpecEP == SpecEP /\ WF_vars(NextEP)

-----------------------------------------------------------------------------
(* What the properties below speak of.                                     *)

\* The tree as parsed, before any replacement.
Original == Parse(html)

\* The eligible positions of the tree as parsed.
Eligible == IterNodes(Original)

Range(q) == { q[k] : k \in 1..Len(q) }

\* The translation each provider gives for one text when its backend answers.
ProviderT(provider, s) ==
    CASE provider = "dummy"  -> DummyPrefix \o s
      [] provider = "openai" -> Strip(ChatReply(s))
      [] provider = "google" -> GoogleText(s)

\* The call answered with the translation of each of its texts, in order.
Faithful(c) ==
    c.resp = Return([k \in 1..Len(c.texts) |-> ProviderT(translator, c.texts[k])])

\* The tree as parsed with every eligible string translated in place.
Expected ==
    [p \in 1..Len(Original) |->
        IF p \in Range(Eligible)
        THEN StringNode("text", ProviderT(translator, Original[p].text), Original[p].parent)
        ELSE Original[p]]

RECURSIVE Concat(_)
Concat(qs) == IF qs = <<>> THEN <<>> ELSE Head(qs) \o Concat(Tail(qs))

CeilDiv(a, b) == (a + b - 1) \div b

\* The positions whose strings were handed to the provider so far.
SentPositions ==
    UNION { Range(Chunk(nodes, (k - 1) * batch_size, batch_size)) : k \in 1..Len(calls) }

\* Position p lies below an element of the skip-set, at any depth.
InsideSkip(t, p) == \E a \in Ancestors(t, p) : t[a].name \in SKIP_TAGS

-----------------------------------------------------------------------------
(* C1: with a provider that answers every call with T(s) for each text s,  *)
(* in order, and a batch size from 1 to N, the returned document is the    *)
(* input tree with the i-th eligible string replaced by T of itself, for   *)
(* every i, and every other node as it was.                                *)
C1_OrderPreserved ==
    ( /\ pc = "done"
      /\ Eligible # <<>>
      /\ batch_size \in 1..Len(Eligible)
      /\ \A k \in 1..Len(calls) : Faithful(calls[k]) )
    => /\ result = Serialize(Expected)
       /\ soup = Expected

\* Three eligible strings, not all alike, translated in batches of two.
C1_Witness ==
    /\ pc = "done"
    /\ Len(Eligible) = 3
    /\ batch_size = 2
    /\ Original[Eligible[1]].text # Original[Eligible[2]].text
    /\ \A k \in 1..Len(calls) : Faithful(calls[k])
    /\ result = Serialize(Expected)

(* C2: a successful translate_html over N >= 1 eligible strings with batch *)
(* size B >= 1 makes ceil(N/B) provider calls, each of B texts but the     *)
(* last, which has N mod B (B when that is 0); the calls' texts put end to *)
(* end are the eligible strings in order.                                  *)
C2_BatchPartition ==
    ( pc = "done" /\ Eligible # <<>> /\ batch_size >= 1 )
    => LET N == Len(Eligible)
           B == batch_size
       IN  /\ Len(calls) = CeilDiv(N, B)
           /\ \A k \in 1..(Len(calls) - 1) : Len(calls[k].texts) = B
           /\ Len(calls[Len(calls)].texts) = (IF N % B = 0 THEN B ELSE N % B)
           /\ Concat([k \in 1..Len(calls) |-> calls[k].texts])
                = NodeStrings(Original, Eligible)

\* Three strings in batches of two: a full batch and a shorter last one.
C2_Witness ==
    /\ pc = "done"
    /\ Len(Eligible) = 3
    /\ batch_size = 2
    /\ Len(calls) = 2
    /\ Len(calls[2].texts) = 1

(* C3: a document with no eligible string is returned as the very input,   *)
(* without serializing, without reading the settings or obtaining a        *)
(* provider, and with no provider call.                                    *)
C3_Passthrough ==
    ( pc # "start" /\ Eligible = <<>> )
    => /\ pc = "done"
       /\ result = html
       /\ ~ serialized
       /\ translator = "none"
       /\ settings = NoSettings
       /\ calls = <<>>

\* A document not in the serializer's form, holding text in a <pre>; the
\* settings were not even read.
C3_Witness ==
    /\ pc = "done"
    /\ Eligible = <<>>
    /\ html.form = "other"
    /\ \E p \in 1..Len(Original) :
          /\ Original[p].kind = "text"
          /\ ~ IsBlank(Original[p].text)
          /\ ParentName(Original, p) = "pre"
    /\ settings = NoSettings
    /\ result = html

(* C4: a string below a skip-set element, at any depth, is never handed to *)
(* the provider and never replaced.                                        *)
C4_SkipSetEnforced ==
    pc # "start"
    => \A p \in 1..Len(Original) :
          ( Original[p].kind # "tag" /\ InsideSkip(Original, p) )
          => /\ p \notin SentPositions
             /\ soup[p] = Original[p]

(* C5: with batch_size <= 0 and at least one eligible string,              *)
(* translate_html ends either rejecting the call with a ConfigurationError *)
(* or, the size clamped, with every eligible string translated.            *)
C5_NonPositiveBatchRejected ==
    ( /\ pc \in {"done", "failed"}
      /\ translator # "none"
      /\ batch_size <= 0
      /\ Eligible # <<>> )
    => \/ pc = "failed" /\ error.type = "ConfigurationError"
       \/ pc = "done" /\ \A p \in Range(Eligible) : soup[p] # Original[p]

(* C6: once a provider call has returned a list whose length is not that   *)
(* of the texts sent, translate_html ends in ProviderContractViolation     *)
(* and returns no document.                                                *)
C6_LengthMismatchRejected ==
    ( /\ pc \in {"done", "failed"}
      /\ \E k \in 1..Len(calls) :
            /\ calls[k].resp.kind = "return"
            /\ Len(calls[k].resp.val) # Len(calls[k].texts) )
    => /\ pc = "failed"
       /\ error.type = "ProviderContractViolation"
       /\ result = NoDoc

(* C7: when the provider raises on batch k, translate_html has failed with *)
(* that same exception, returned no document, made exactly k provider      *)
(* calls, left the strings of batch k and of every later batch as they     *)
(* were, and does nothing more.                                            *)
C7_ProviderErrorAborts ==
    ( calls # <<>> /\ calls[Len(calls)].resp.kind = "raise" )
    => /\ pc = "failed"
       /\ error = calls[Len(calls)].resp.err
       /\ result = NoDoc
       /\ ~ serialized
       /\ Len(calls) = (i \div batch_size) + 1
       /\ \A k \in 1..(Len(calls) - 1) : calls[k].resp.kind = "return"
       /\ \A j \in (i + 1)..Len(nodes) : soup[nodes[j]] = Original[nodes[j]]
       /\ ~ ENABLED NextAny

\* The second of three batches raises, the first having been applied.
C7_Witness ==
    /\ pc = "failed"
    /\ Len(nodes) = 3
    /\ batch_size = 1
    /\ Len(calls) = 2
    /\ calls[2].resp.kind = "raise"
    /\ soup[nodes[1]] # Original[nodes[1]]
    /\ soup[nodes[2]] = Original[nodes[2]]
    /\ error = calls[2].resp.err

(* C9: every failure of the Google provider's one request leaves           *)
(* translate_batch as a TranslationAPIError, and a list it returns with    *)
(* one entry per text holds the texts' translations in order.              *)
C9_GoogleErrorsTranslated ==
    translator = "google"
    => \A k \in 1..Len(calls) :
          LET c == calls[k]
          IN  /\ c.resp.kind = "raise" => IsInstance(c.resp.err, "TranslationAPIError")
              /\ ( c.resp.kind = "return" /\ Len(c.resp.val) = Len(c.texts) )
                 => \A j \in 1..Len(c.texts) : c.resp.val[j] = GoogleText(c.texts[j])

-----------------------------------------------------------------------------
(* Properties of the chat-API provider's batch call (SpecOA).              *)

\* The requests that failed, and those that failed for quota.
OAFailed == { k \in 1..Len(oaTexts) : oaBackend[k] \in {"quota", "other"} }

OAQuota == { k \in 1..Len(oaTexts) : oaBackend[k] = "quota" }

(* C8: a batch call whose failed requests all failed for quota or rate     *)
(* limiting raises InsufficientQuotaError, answered 429; one whose failed  *)
(* requests all failed otherwise raises a TranslationAPIError that is not  *)
(* an InsufficientQuotaError, answered 502.                                *)
C8_QuotaDistinguished ==
    ( oaPc = "done" /\ OAFailed # {} )
    => /\ OAFailed = OAQuota
          => /\ IsInstance(oaResult.err, "InsufficientQuotaError")
             /\ EndpointStatus(oaResult.err) = 429
       /\ OAQuota = {}
          => /\ IsInstance(oaResult.err, "TranslationAPIError")
             /\ ~ IsInstance(oaResult.err, "InsufficientQuotaError")
             /\ EndpointStatus(oaResult.err) = 502

(* C10: if any request of the batch failed, the batch call raises and      *)
(* returns no list; a list it returns holds the translation of every text. *)
C10_AllOrNothing ==
    oaPc = "done"
    => IF OAFailed # {}
       THEN oaResult.kind = "raise" /\ oaResult.val = <<>>
       ELSE oaResult = Return([k \in 1..Len(oaTexts) |-> Strip(ChatReply(oaTexts[k]))])

\* Of three requests only the second failed, and it completed first.
C10_Witness ==
    /\ oaPc = "done"
    /\ Len(oaTexts) = 3
    /\ OAFailed = {2}
    /\ oaOrder[1] = 2
    /\ oaTasks[1].kind = "return"
    /\ oaTasks[3].kind = "return"
    /\ oaResult.kind = "raise"

-----------------------------------------------------------------------------
(* Properties of several requests in one process (SpecRq).                 *)

\* The requests that hold a provider.
Holders == { r \in Requests : requests[r].translator # NoInstance }

(* C11: whatever the requests and however their handling interleaves, a    *)
(* provider class has returned an instance at most once; the cache holds   *)
(* that first instance, built for the configured provider, and every       *)
(* request that obtained a provider holds that very instance, unchanged.   *)
C11_ProviderConstructedOnce ==
    /\ constructed <= 1
    /\ constructed = 0 <=> cache = NoInstance
    /\ cache # NoInstance
       => /\ cache.id = 1
          /\ cache.key = settings.translation_provider
    /\ \A r \in Holders : requests[r].translator = cache

\* Both requests obtained the provider, B while A was awaiting its call.
C11_Witness ==
    /\ Holders = Requests
    /\ constructed = 1
    /\ schedule = <<"A">>
    /\ requests["A"].pc = "awaiting"
    /\ requests["B"].pc = "loop"
    /\ requests["B"].translator = requests["A"].translator

\* The tree translate_html has when it runs alone on tree t with the nodes
\* ns and batch size b, after its calls were answered by resps, in turn.
RECURSIVE AloneFrom(_, _, _, _, _)
AloneFrom(t, ns, b, resps, k) ==
    IF k > Len(resps) THEN t
    ELSE AloneFrom(ApplyTranslations(t, Chunk(ns, (k - 1) * b, b), resps[k]),
                   ns, b, resps, k + 1)

\* The lists request r's provider calls have returned so far.
Answers(r) ==
    LET cs == requests[r].calls
        n  == Cardinality({ k \in 1..Len(cs) : cs[k].resp.kind = "return" })
    IN  [k \in 1..n |-> cs[k].resp.val]

(* C12: with the requests interleaving at their provider calls on the one  *)
(* shared provider, each request's node list is that of its own document,  *)
(* each of its calls was given its own strings and answered for them, its  *)
(* tree is at every moment what its own answers make of its own document,  *)
(* and the document it returns is the one it returns when run alone with   *)
(* those answers.                                                          *)
C12_RequestsIsolated ==
    \A r \in Requests :
       LET q    == requests[r]
           tree == Parse(q.html)
           ns   == IterNodes(tree)
       IN  q.pc # "start"
           => /\ q.nodes = ns
              /\ \A k \in 1..Len(q.calls) :
                    LET own == NodeStrings(tree, Chunk(ns, (k - 1) * q.batch_size,
                                                       q.batch_size))
                    IN  /\ q.calls[k].texts = own
                        /\ \/ q.calls[k].resp = Pending
                           \/ q.calls[k].resp \in ProviderOutcomes(q.translator.key, own)
              /\ q.soup = AloneFrom(tree, ns, q.batch_size, Answers(r), 1)
              /\ q.pc = "done"
                 => IF ns = <<>>
                    THEN q.result = q.html
                    ELSE /\ Len(Answers(r)) = Len(q.calls)
                         /\ q.result = Serialize(AloneFrom(tree, ns, q.batch_size,
                                                           Answers(r), 1))

\* Two requests with different documents, two calls each, taking turns at
\* the provider; both have returned a translated document.
C12_Witness ==
    /\ schedule = <<"A", "B", "A", "B">>
    /\ requests["A"].html # requests["B"].html
    /\ \A r \in Requests :
          /\ requests[r].pc = "done"
          /\ Len(requests[r].calls) = 2
          /\ requests[r].result.nodes # requests[r].html.nodes
          /\ requests[r].result =
                Serialize(AloneFrom(Parse(requests[r].html), requests[r].nodes,
                                    requests[r].batch_size, Answers(r), 1))

-----------------------------------------------------------------------------
(* Further properties of the single translate_html.                        *)

\* How often the string at position p was replaced: once for each call that
\* returned a translation paired with it by the zip.
Replacements(p) ==
    Cardinality({ k \in 1..Len(calls) :
                    /\ calls[k].resp.kind = "return"
                    /\ \E j \in 1..Min(Len(calls[k].texts), Len(calls[k].resp.val)) :
                          SubSeq(Eligible, (k - 1) * batch_size + 1,
                                 Len(Eligible))[j] = p })

(* C13: when translate_html has returned, the tree has the nodes it had    *)
(* when parsed, every element and every string that is not eligible is as  *)
(* it was, and every eligible string was replaced exactly once, where it   *)
(* was, differing from the original in nothing but its content.            *)
C13_OnlyPayloadChanges ==
    pc = "done"
    => /\ Len(soup) = Len(Original)
       /\ result.nodes = soup
       /\ \A p \in 1..Len(Original) :
             IF p \in Range(Eligible)
             THEN /\ soup[p] = [Original[p] EXCEPT !.text = soup[p].text]
                  /\ Replacements(p) = 1
             ELSE soup[p] = Original[p]

\* The positions of the k-th batch: the eligible positions from the
\* ((k-1)*batch_size + 1)-th on, batch_size of them or as many as are left.
Batch(k) ==
    SubSeq(Eligible, (k - 1) * batch_size + 1, Min(k * batch_size, Len(Eligible)))

\* How many provider calls have returned a list.
Returned == Cardinality({ k \in 1..Len(calls) : calls[k].resp.kind = "return" })

(* C14: the batches go to the provider one after another in document       *)
(* order: every call but the latest has returned, so at most one is in     *)
(* flight; the k-th call was given the strings of the k-th batch as parsed; *)
(* the replacements of every call that has returned are in the tree, while *)
(* the strings of the batch in flight and of every later batch are as      *)
(* parsed.                                                                 *)
C14_BatchesSequential ==
    calls # <<>>
    => /\ \A k \in 1..(Len(calls) - 1) : calls[k].resp.kind = "return"
       /\ calls[Len(calls)].resp = Pending <=> pc = "awaiting"
       /\ i = Returned * batch_size
       /\ \A k \in 1..Len(calls) :
             /\ calls[k].texts = [j \in 1..Len(Batch(k)) |-> Original[Batch(k)[j]].text]
             /\ \A j \in 1..Len(Batch(k)) :
                   LET p == Batch(k)[j]
                   IN  soup[p] = IF /\ calls[k].resp.kind = "return"
                                    /\ j <= Len(calls[k].resp.val)
                                 THEN StringNode("text", calls[k].resp.val[j],
                                                 Original[p].parent)
                                 ELSE Original[p]
       /\ \A m \in (Len(calls) * batch_size + 1)..Len(Eligible) :
             soup[Eligible[m]] = Original[Eligible[m]]

\* The second of two batches is in flight: the first batch is replaced, the
\* second and the string after it are as parsed.
C14_Witness ==
    /\ pc = "awaiting"
    /\ Len(Eligible) = 3
    /\ batch_size = 1
    /\ Len(calls) = 2
    /\ calls[1].resp.kind = "return"
    /\ calls[1].resp.val # <<>>
    /\ soup[Eligible[1]].text = calls[1].resp.val[1]
    /\ soup[Eligible[2]] = Original[Eligible[2]]
    /\ soup[Eligible[3]] = Original[Eligible[3]]

-----------------------------------------------------------------------------
(* Further properties of the chat-API provider's batch call (SpecOA).      *)

(* C15: the batch call issues one request per text, all in flight at once  *)
(* and each completing once, in any order; when every request has          *)
(* succeeded the call returns a list as long as the input whose i-th entry *)
(* is the translation of the i-th text.                                    *)
C15_RequestPerTextInOrder ==
    /\ Len(oaTasks) = Len(oaTexts)
    /\ Range(oaOrder) \subseteq 1..Len(oaTexts)
    /\ Cardinality(Range(oaOrder)) = Len(oaOrder)
    /\ \A k \in 1..Len(oaTexts) : oaTasks[k].kind = "pending" <=> k \notin Range(oaOrder)
    /\ oaPc = "done"
       => /\ Range(oaOrder) = 1..Len(oaTexts)
          /\ ( \A k \in 1..Len(oaTexts) : oaBackend[k] = "ok" )
             => /\ oaResult.kind = "return"
                /\ Len(oaResult.val) = Len(oaTexts)
                /\ \A k \in 1..Len(oaTexts) :
                      oaResult.val[k] = Strip(ChatReply(oaTexts[k]))

\* Three requests completed last to first, all with success; the first and
\* the last text differ.
C15_Witness ==
    /\ oaPc = "done"
    /\ Len(oaTexts) = 3
    /\ oaTexts[1] # oaTexts[3]
    /\ oaOrder = <<3, 2, 1>>
    /\ \A k \in 1..3 : oaBackend[k] = "ok"
    /\ oaResult.kind = "return"
    /\ oaResult.val[1] = Strip(ChatReply(oaTexts[1]))
    /\ oaResult.val[3] = Strip(ChatReply(oaTexts[3]))

-----------------------------------------------------------------------------
(* The node selector.                                                      *)

\* The strings of the parsed tree that are no comment and no doctype, whose
\* content is not empty once trimmed, and whose immediate parent is no
\* element of the skip-set.
Wanted ==
    { p \in 1..Len(Original) :
        /\ Original[p].kind \notin {"tag", "comment", "doctype"}
        /\ Strip(Original[p].text) # <<>>
        /\ \/ Original[p].parent = 0
           \/ Original[Original[p].parent].name \notin SKIP_TAGS }

(* C16: the selector yields exactly the strings that are no comment and no *)
(* doctype, not empty once trimmed, and whose immediate parent is not in   *)
(* the skip-set: each of them once, in document order, and nothing else;   *)
(* run again on the tree before any replacement it yields the same.        *)
C16_SelectorExact ==
    pc \notin {"start", "idle"}
    => /\ Range(nodes) = Wanted
       /\ Len(nodes) = Cardinality(Wanted)
       /\ \A j \in 1..(Len(nodes) - 1) : nodes[j] < nodes[j + 1]
       /\ calls = <<>> => IterNodes(soup) = nodes

\* <pre><b>Hello</b>World </pre>: the string in <b> is yielded though it is
\* inside <pre>, the string right in <pre> is not; nothing was replaced yet.
C16_Witness ==
    /\ pc = "loop"
    /\ calls = <<>>
    /\ Len(nodes) = 1
    /\ InsideSkip(Original, nodes[1])
    /\ ParentName(Original, nodes[1]) = "b"
    /\ \E p \in 1..Len(Original) :
          /\ p \notin Range(nodes)
          /\ Original[p].kind = "text"
          /\ ~ IsBlank(Original[p].text)
          /\ ParentName(Original, p) = "pre"

-----------------------------------------------------------------------------
(* The temporary file of translate_endpoint (FairSpecEP).                  *)

(* C17: a temporary file that translate_endpoint has created is in the end *)
(* deleted, whichever way the handler goes: no temporary file stays on     *)
(* disk for ever.                                                          *)
C17_TempFileDeleted == (disk # {}) ~> (disk = {})

====
